---- MODULE Spec2Model ----
(***************************************************************************)
(* A model of hippie68/argparser: Command.parse / Command._parse           *)
(* (src/argparser.py) driven by the option registry and the handlers of    *)
(* the example program (src/example.py).                                   *)
(*                                                                         *)
(* Python strings are sequences of one-character strings, so that slicing, *)
(* find("=") and startswith("[") are computed as the code computes them.   *)
(* Python's None is the one-element sequence <<"None">>, which no string   *)
(* of single characters equals.  argv_index keeps Python's 0-based value:  *)
(* element i of a Python list l is l[i + 1] here.                          *)
(***************************************************************************)
EXTENDS Integers, Sequences, FiniteSets, TLC

VARIABLES
    input,       \* the list the caller passes to parse (argparser.py:188, example.py:94)
    argv,        \* self.argv (argparser.py:201)
    argc,        \* self.argc (argparser.py:202)
    argv_index,  \* self.argv_index (argparser.py:203)
    operands,    \* self.operands (argparser.py:200)
    calls,       \* history: the handler invocations so far, in order, each with
                 \* the number of elements read when it ran (argparser.py:143-147)
    scan,        \* history: the elements _parse has read at the cursor, in
                 \* order, each with its position (argparser.py:105)
    reads,       \* history: the positions of self.argv that have been read,
                 \* in order (argparser.py:105, 113, 141, 166)
    steps,       \* history: the calls of _parse this call of parse has made
                 \* (argparser.py:206)
    settings,    \* example.py's settings dictionary (example.py:24-30)
    stderr,      \* the messages printed to sys.stderr (argparser.py:209)
    pc,          \* "idle" (constructed), "parsing" (inside parse's loop), "done"
    result,      \* parse's return value (True on error), once pc = "done"
    propagated,  \* the exception that left parse or print_help, "none" if it returned
    parses,      \* history: the number of calls of parse so far (argparser.py:188)
    MAX_LINE_LENGTH,  \* the module constant, set from the terminal's width
                 \* when the module is imported (argparser.py:7-8)
    cmd,         \* the Command given to print_help: name, usage, manual, options
                 \* (argparser.py:80-90, 215)
    file,        \* the characters printed to print_help's file (argparser.py:215)
    block,       \* print_block's parameters and locals (argparser.py:259, 299-305)
                 \* and the call it returns to
    help,        \* print_help's locals option_usages, longest and the position
                 \* of its for loop (argparser.py:355-360)
    emitted,     \* history: the characters printed by print_block and by the
                 \* option list (argparser.py:313-346, 362)
    line,        \* history: the line of print_block's text that is being
                 \* printed (its text up to the next newline) and the column
                 \* its first character is due at (argparser.py:299, 312-317)
    cuts,        \* history: how many times this call of print_block has ended
                 \* a line inside a word (argparser.py:336-339)
    idle         \* history: how many iterations of print_block's loop in a row
                 \* have left string as it was (argparser.py:307-345)

parseVars == <<input, argv, argc, argv_index, operands, calls, scan, reads, steps,
               settings, stderr, result, parses>>

helpVars == <<MAX_LINE_LENGTH, cmd, file, block, help, emitted, line, cuts, idle>>

vars == <<parseVars, helpVars, pc, propagated>>

----------------------------------------------------------------------------
(* Python values and string operations *)

None == <<"None">>

\* The newline character.
NL == "\n"

\* Python truthiness of a str-or-None value: `if x` / `not x`.
Truthy(x) == x # None /\ x # <<>>

\* l[i] for a Python index i >= 0.
At(l, i) == l[i + 1]

\* s[k:]
From(s, k) == SubSeq(s, k + 1, Len(s))

\* s[:k]
Upto(s, k) == SubSeq(s, 1, k)

\* s.find(ch): the least 0-based index of ch in s, or -1.
Find(s, ch) ==
    IF \E i \in 1..Len(s) : s[i] = ch
    THEN (CHOOSE i \in 1..Len(s) : s[i] = ch /\ \A j \in 1..(i - 1) : s[j] # ch) - 1
    ELSE -1

\* s.startswith(ch) for a one-character ch.
StartsWith(s, ch) == Len(s) > 0 /\ s[1] = ch

Min(S) == CHOOSE x \in S : \A y \in S : x <= y

----------------------------------------------------------------------------
(* Exceptions.  A message is the f-string's literal head, the value        *)
(* substituted into it, and its literal tail.                              *)

Msg(head, name, tail) == [head |-> head, name |-> name, tail |-> tail]

NoExc == [type |-> "none", msg |-> Msg("", <<>>, "")]

ParsingError(m) == [type |-> "ParsingError", msg |-> m]

UnboundLocalError == [type |-> "UnboundLocalError", msg |-> Msg("number", <<>>, "")]

SystemExit == [type |-> "SystemExit", msg |-> Msg("0", <<>>, "")]

\* str(e) != ""
MsgNonEmpty(m) == m.head # "" \/ m.name # <<>> \/ m.tail # ""

----------------------------------------------------------------------------
(* example.py: the registry and its handlers *)

InitialSettings ==
    [verbose_flag |-> FALSE,
     filename |-> None,
     log_enabled |-> FALSE,
     log_file |-> <<"l", "o", "g", ".", "t", "x", "t">>,
     n |-> 10]

\* The description of each option of example.py's registry.
Description_v ==
    <<"E", "n", "a", "b", "l", "e", " ", "v", "e", "r", "b", "o", "s", "e", " ", "p",
      "r", "o", "g", "r", "a", "m", " ", "o", "u", "t", "p", "u", "t", ".">>

Description_f ==
    <<"W", "r", "i", "t", "e", " ", "o", "u", "t", "p", "u", "t", " ", "t", "o", " ",
      "f", "i", "l", "e", " ", "F", "I", "L", "E", "N", "A", "M", "E", ".">>

Description_h ==
    <<"P", "r", "i", "n", "t", " ", "h", "e", "l", "p", " ", "s", "c", "r", "e", "e",
      "n", " ", "a", "n", "d", " ", "q", "u", "i", "t", ".">>

Description_l ==
    <<"E", "n", "a", "b", "l", "e", " ", "l", "o", "g", "g", "g", "i", "n", "g", " ",
      "(", "d", "e", "f", "a", "u", "l", "t", " ", "l", "o", "g", " ", "f", "i", "l",
      "e", ":", " ", "l", "o", "g", ".", "t", "x", "t", ")", ".">>

Description_n ==
    <<"S", "e", "t", " ", "n", " ", "t", "o", " ", "a", " ", "N", "U", "M", "B", "E",
      "R", " ", "b", "e", "t", "w", "e", "e", "n", " ", "1", "0", " ", "a", "n", "d",
      " ", "2", "0", ".">>

options ==
    << [short_name |-> <<"v">>, long_name |-> <<"v", "e", "r", "b", "o", "s", "e">>,
        arg |-> None, description |-> Description_v,
        callback |-> "verbose", hidden |-> FALSE],
       [short_name |-> <<"f">>, long_name |-> <<"f", "i", "l", "e">>,
        arg |-> <<"F", "I", "L", "E", "N", "A", "M", "E">>,
        description |-> Description_f,
        callback |-> "file", hidden |-> FALSE],
       [short_name |-> <<"h">>, long_name |-> <<"h", "e", "l", "p">>,
        arg |-> None, description |-> Description_h,
        callback |-> "help", hidden |-> FALSE],
       [short_name |-> <<"l">>, long_name |-> <<"l", "o", "g">>,
        arg |-> <<"[", "L", "O", "G", "_", "F", "I", "L", "E", "]">>,
        description |-> Description_l,
        callback |-> "log", hidden |-> FALSE],
       [short_name |-> <<"n">>, long_name |-> None,
        arg |-> <<"N", "U", "M", "B", "E", "R">>,
        description |-> Description_n,
        callback |-> "n", hidden |-> FALSE] >>

\* The manual of example.py's command.
ExampleManual ==
    <<"T", "h", "i", "s", " ", "i", "s", " ", "a", " ", "t", "e", "s", "t", " ", "p",
      "r", "o", "g", "r", "a", "m", " ", "t", "h", "a", "t", " ", "u", "s", "e", "s",
      " ", "t", "h", "e", " ", "a", "r", "g", "p", "a", "r", "s", "e", "r", " ", "m",
      "o", "d", "u", "l", "e", " ", "t", "o", " ", "s", "h", "o", "w", " ", "h", "o",
      "w", " ", "t", "o", " ", "i", "m", "p", "l", "e", "m", "e", "n", "t", " ", "d",
      "i", "f", "f", "e", "r", "e", "n", "t", " ", "o", "p", "t", "i", "o", "n", "s",
      ".", " ", "N", "o", "t", "i", "c", "e", " ", "h", "o", "w", " ", "t", "h", "e",
      " ", "h", "e", "l", "p", " ", "s", "c", "r", "e", "e", "n", " ", "p", "r", "o",
      "p", "e", "r", "l", "y", " ", "w", "o", "r", "d", "-", "w", "r", "a", "p", "s",
      " ", "t", "h", "e", " ", "t", "e", "x", "t", ".", NL, NL, "T", "h", "i", "s", " ",
      "i", "n", "c", "l", "u", "d", "e", "s", " ", "n", "e", "w", "l", "i", "n", "e",
      " ", "c", "h", "a", "r", "a", "c", "t", "e", "r", "s", " ", "a", "n", "d", " ",
      "i", "n", "d", "e", "n", "t", "a", "t", "i", "o", "n", ":", NL, NL, " ", " ", " ",
      "-", " ", "A", "s", " ", "y", "o", "u", " ", "c", "a", "n", " ", "s", "e", "e",
      ",", " ", "i", "n", "d", "e", "n", "t", "a", "t", "i", "o", "n", " ", "e", "n",
      "t", "e", "r", "e", "d", " ", "o", "n", " ", "p", "u", "r", "p", "o", "s", "e",
      ".", ".", ".", NL, " ", " ", " ", "-", " ", ".", ".", ".", "i", "s", " ", "b",
      "e", "i", "n", "g", " ", "r", "e", "s", "p", "e", "c", "t", "e", "d", ".", NL, NL,
      "T", "h", "a", "n", "k", " ", "y", "o", "u", " ", "f", "o", "r", " ", "t", "r",
      "y", "i", "n", "g", " ", "t", "h", "i", "s", " ", "o", "u", "t", ".">>


\* cmd = argparser.Command("main.py", "[OPTION...] OPERAND...", manual, options)
ExampleCommand ==
    [name |-> <<"m", "a", "i", "n", ".", "p", "y">>,
     usage |-> <<"[", "O", "P", "T", "I", "O", "N", ".", ".", ".", "]", " ",
                 "O", "P", "E", "R", "A", "N", "D", ".", ".", ".">>,
     manual |-> ExampleManual,
     options |-> options]

Digits == {"0", "1", "2", "3", "4", "5", "6", "7", "8", "9"}

DigitVal(c) ==
    CASE c = "0" -> 0 [] c = "1" -> 1 [] c = "2" -> 2 [] c = "3" -> 3
      [] c = "4" -> 4 [] c = "5" -> 5 [] c = "6" -> 6 [] c = "7" -> 7
      [] c = "8" -> 8 [] c = "9" -> 9

RECURSIVE DecVal(_)
DecVal(s) == IF s = <<>> THEN 0 ELSE 10 * DecVal(Upto(s, Len(s) - 1)) + DigitVal(s[Len(s)])

\* int(arg) accepts an optional sign followed by decimal digits (over the
\* characters of this model); anything else raises ValueError.
IsInt(s) ==
    LET body == IF StartsWith(s, "-") \/ StartsWith(s, "+") THEN From(s, 1) ELSE s
    IN  s # None /\ Len(body) > 0 /\ \A i \in 1..Len(body) : body[i] \in Digits

IntVal(s) ==
    IF StartsWith(s, "-") THEN 0 - DecVal(From(s, 1))
    ELSE IF StartsWith(s, "+") THEN DecVal(From(s, 1))
    ELSE DecVal(s)

\* convert_number after int(arg) has succeeded with number.
CheckRange(arg, number) ==
    IF number < 10 \/ number > 20
    THEN [exc |-> ParsingError(Msg("Number out of range: ", arg,
                                   " (allowed range: 10-20).")),
          value |-> 0]
    ELSE [exc |-> NoExc, value |-> number]

\* convert_number: [exc, value].  When int(arg) raises ValueError, the
\* except clause formats `number`, which was never assigned.
convert_number(arg) ==
    IF ~IsInt(arg)
    THEN [exc |-> UnboundLocalError, value |-> 0]
    ELSE CheckRange(arg, IntVal(arg))

\* settings.update({"n": convert_number(arg)})
UpdateN(st, r) ==
    [exc |-> r.exc,
     settings |-> IF r.exc = NoExc THEN [st EXCEPT !.n = r.value] ELSE st]

\* The callback of an option run on the settings: [exc, settings].
\* args is <<>> for callback() and <<oarg>> for callback(oarg).
RunCallback(callback, args, st) ==
    CASE callback = "verbose" ->
            [exc |-> NoExc, settings |-> [st EXCEPT !.verbose_flag = TRUE]]
      [] callback = "file" ->
            [exc |-> NoExc, settings |-> [st EXCEPT !.filename = args[1]]]
      [] callback = "help" ->
            [exc |-> SystemExit, settings |-> st]
      [] callback = "log" ->
            [exc |-> NoExc,
             settings |-> IF args[1] # None
                          THEN [st EXCEPT !.log_enabled = TRUE, !.log_file = args[1]]
                          ELSE [st EXCEPT !.log_enabled = TRUE]]
      [] callback = "n" -> UpdateN(st, convert_number(args[1]))

----------------------------------------------------------------------------
(* Command._parse on a session record                                      *)
(*   self: [argv, argc, argv_index, operands, calls, scan, settings]       *)
(* The operators that model statements which may return or raise give      *)
(* [self, ret, exc]: the session as the call leaves it, the value returned *)
(* (when exc is NoExc) and the exception raised.                           *)

Return(self, ret) == [self |-> self, ret |-> ret, exc |-> NoExc]

Raise(self, exc) == [self |-> self, ret |-> FALSE, exc |-> exc]

\* The handler has run on the session `logged` with the outcome r.
Called(logged, r) ==
    IF r.exc = NoExc
    THEN Return([logged EXCEPT !.settings = r.settings], TRUE)
    ELSE Raise([logged EXCEPT !.settings = r.settings], r.exc)

\* Mutant of CallWith: the callback is run in both branches of
\* `if option.arg`, so twice.
CallWithTwice(self, i, args) ==
    Called([self EXCEPT !.calls = @ \o <<[option |-> i, args |-> args,
                                         step |-> Len(self.scan)],
                                        [option |-> i, args |-> args,
                                         step |-> Len(self.scan)]>>],
           RunCallback(options[i].callback, args, self.settings))

\* option.callback(*args): the invocation is recorded with the number of
\* elements read so far, and the handler runs.
CallWith(self, i, args) ==
    Called([self EXCEPT !.calls = Append(@, [option |-> i, args |-> args,
                                             step |-> Len(self.scan)])],
           RunCallback(options[i].callback, args, self.settings))

\* if option.callback: option.callback(oarg) if option.arg else option.callback()
InvokeCallback(self, i, oarg) ==
    IF options[i].callback = "none"
    THEN Return(self, TRUE)
    ELSE CallWith(self, i, IF Truthy(options[i].arg) THEN <<oarg>> ELSE <<>>)

\* self.argv_index += 1
NextArg(self) == [self EXCEPT !.argv_index = @ + 1]

\* Mutant of Advance: self.argv_index -= 1
AdvanceBackwards(self) == Return([self EXCEPT !.argv_index = @ - 1], TRUE)

\* self.argv_index += 1; return True
Advance(self) == Return(NextArg(self), TRUE)

\* The statements after the if chain, reached unless r raised.
ThenAdvance(r) == IF r.exc = NoExc THEN Advance(r.self) ELSE r

\* Mutant of AppendOperand: the operand is inserted in front.
AppendOperandInFront(self, arg) == [self EXCEPT !.operands = <<arg>> \o @]

AppendOperand(self, arg) == [self EXCEPT !.operands = Append(@, arg)]

\* Mutant of EndOfOptions: the slice starts at the marker instead of after it.
EndOfOptionsKeepsMarker(self) ==
    Return([self EXCEPT !.operands = @ \o From(self.argv, self.argv_index),
                        !.argv_index = IF self.argv_index + 1 < self.argc
                                       THEN self.argc ELSE self.argv_index + 1],
           FALSE)

\* The positions from, from + 1, ... below to, in order.
Positions(from, to) == [k \in 1..(to - from) |-> from + k - 1]

\* self.argv[pos] is read.
Read(self, pos) == [self EXCEPT !.reads = Append(@, pos)]

\* arg == "--": every remaining element becomes an operand.
EndOfOptions(self) ==
    Return([self EXCEPT !.operands = @ \o From(self.argv, self.argv_index + 1),
                        !.reads = @ \o Positions(self.argv_index + 1, self.argc),
                        !.argv_index = IF self.argv_index + 1 < self.argc
                                       THEN self.argc ELSE self.argv_index + 1],
           FALSE)

\* Mutant of SplitAt: an empty attached value is turned into None.
SplitAtEmptyIsNone(rest, oarg_pos) ==
    IF oarg_pos # -1 /\ From(rest, oarg_pos + 1) # <<>>
    THEN [long_name |-> Upto(rest, oarg_pos), oarg |-> From(rest, oarg_pos + 1)]
    ELSE [long_name |-> IF oarg_pos # -1 THEN Upto(rest, oarg_pos) ELSE rest,
          oarg |-> None]

\* Mutant of SplitAt: the slice for oarg starts at the "=" instead of after it.
SplitAtKeepsEquals(rest, oarg_pos) ==
    IF oarg_pos # -1
    THEN [long_name |-> Upto(rest, oarg_pos), oarg |-> From(rest, oarg_pos)]
    ELSE [long_name |-> rest, oarg |-> None]

\* oarg = None; if oarg_pos != -1: oarg = long_name[oarg_pos + 1 :];
\* long_name = long_name[:oarg_pos]
SplitAt(rest, oarg_pos) ==
    IF oarg_pos # -1
    THEN [long_name |-> Upto(rest, oarg_pos), oarg |-> From(rest, oarg_pos + 1)]
    ELSE [long_name |-> rest, oarg |-> None]

\* long_name = arg[2:], split at the first "=" into [long_name, oarg].
SplitLong(arg) == SplitAt(From(arg, 2), Find(From(arg, 2), "="))

\* for option in self.options: if option.<field> == name: ... break
\* The index of the first option that matches, 0 when the loop's else runs.
FindLong(long_name) ==
    LET found == {i \in 1..Len(options) : options[i].long_name = long_name}
    IN  IF found = {} THEN 0 ELSE Min(found)

FindShort(short_name) ==
    LET found == {i \in 1..Len(options) : options[i].short_name = short_name}
    IN  IF found = {} THEN 0 ELSE Min(found)

\* Mutant of HasAttached: `if oarg` instead of `if oarg is not None`.
HasAttachedTruthy(oarg) == Truthy(oarg)

\* oarg is not None
HasAttached(oarg) == oarg # None

\* Mutant of Mandatory: the test for the bracket is left out.
MandatoryIgnoresBrackets(option) == Truthy(option.arg)

\* option.arg and not option.arg.startswith("[")
Mandatory(option) == Truthy(option.arg) /\ ~StartsWith(option.arg, "[")

\* Mutant of Rewrite: the slice drops one character too many.
RewriteSkipsOne(arg) == <<"-">> \o From(arg, 3)

\* "-" + arg[2:]
Rewrite(arg) == <<"-">> \o From(arg, 2)

\* Long option, after self.argv_index += 1 for a mandatory argument.
LongNext(next, long_name, i) ==
    IF next.argv_index > next.argc - 1
    THEN Raise(next, ParsingError(Msg("Option --", long_name,
                                      " requires an argument.")))
    ELSE InvokeCallback(Read(next, next.argv_index), i,
                        At(next.argv, next.argv_index))

\* Long option: the body of the for loop for the matching option i.
LongMatch(self, long_name, oarg, i) ==
    IF HasAttached(oarg)
    THEN IF ~Truthy(options[i].arg)
         THEN Raise(self, ParsingError(Msg("Option --", long_name,
                                           " does not allow an argument.")))
         ELSE InvokeCallback(self, i, oarg)
    ELSE IF Mandatory(options[i])
         THEN LongNext(NextArg(self), long_name, i)
         ELSE InvokeCallback(self, i, oarg)

\* Long option: the for loop with its else clause, given the index found.
LongLookup(self, long_name, oarg, i) ==
    IF i = 0
    THEN Raise(self, ParsingError(Msg("Unknown option: --", long_name, "")))
    ELSE ThenAdvance(LongMatch(self, long_name, oarg, i))

LongSplit(self, split) ==
    LongLookup(self, split.long_name, split.oarg, FindLong(split.long_name))

LongOption(self, arg) == LongSplit(self, SplitLong(arg))

\* Short option, after self.argv_index += 1 for a mandatory argument:
\* [self, oarg, exc].
ShortNext(next, short_name) ==
    IF next.argv_index > next.argc - 1
    THEN [self |-> next, oarg |-> None,
          exc |-> ParsingError(Msg("Option -", short_name, " requires an argument."))]
    ELSE [self |-> Read(next, next.argv_index),
          oarg |-> At(next.argv, next.argv_index), exc |-> NoExc]

\* Short option: oarg for the matching option i: [self, oarg, exc].
ShortArg(self, arg, short_name, i) ==
    IF Truthy(options[i].arg)
    THEN IF Len(arg) > 2
         THEN [self |-> self, oarg |-> From(arg, 2), exc |-> NoExc]
         ELSE IF Mandatory(options[i])
              THEN ShortNext(NextArg(self), short_name)
              ELSE [self |-> self, oarg |-> None, exc |-> NoExc]
    ELSE [self |-> self, oarg |-> None, exc |-> NoExc]

\* Mutant of ShortBlock: `return True` without the assignment that
\* shortens the token.
ShortBlockKeepsToken(r, oarg, arg) ==
    IF r.exc # NoExc
    THEN r
    ELSE IF ~Truthy(oarg) /\ Len(arg) > 2
         THEN Return(r.self, TRUE)
         ELSE Advance(r.self)

\* Short option: after the for loop, the short option block (-abc).
ShortBlock(r, oarg, arg) ==
    IF r.exc # NoExc
    THEN r
    ELSE IF ~Truthy(oarg) /\ Len(arg) > 2
         THEN Return([r.self EXCEPT !.argv[r.self.argv_index + 1] = Rewrite(arg)], TRUE)
         ELSE Advance(r.self)

\* Short option: the callback of the matching option i, given its oarg.
ShortCall(a, arg, i) ==
    IF a.exc # NoExc
    THEN Raise(a.self, a.exc)
    ELSE ShortBlock(InvokeCallback(a.self, i, a.oarg), a.oarg, arg)

\* Short option: the for loop with its else clause, given the index found.
ShortLookup(self, arg, short_name, i) ==
    IF i = 0
    THEN Raise(self, ParsingError(Msg("Unknown option: -", short_name, "")))
    ELSE ShortCall(ShortArg(self, arg, short_name, i), arg, i)

ShortOption(self, arg) == ShortLookup(self, arg, <<arg[2]>>, FindShort(<<arg[2]>>))

\* arg = self.argv[self.argv_index], recorded in scan.
ReadArg(self) ==
    Read([self EXCEPT !.scan = Append(@, [pos |-> self.argv_index,
                                          arg |-> At(self.argv, self.argv_index)])],
         self.argv_index)

\* The if chain of _parse on the element arg just read.
Classify(self, arg) ==
    IF Len(arg) = 0
    THEN Advance(AppendOperand(self, arg))
    ELSE IF arg = <<"-", "-">>
    THEN EndOfOptions(self)
    ELSE IF arg[1] = "-"
    THEN IF Len(arg) = 1
         THEN Advance(AppendOperand(self, arg))
         ELSE IF arg[2] = "-"
         THEN LongOption(self, arg)
         ELSE ShortOption(self, arg)
    ELSE Advance(AppendOperand(self, arg))

_parse(self) ==
    IF self.argv_index > self.argc - 1
    THEN Return(self, FALSE)
    ELSE Classify(ReadArg(self), At(self.argv, self.argv_index))

----------------------------------------------------------------------------
(* Command.parse as a function of the argument list: what a whole call     *)
(* leaves behind, from a fresh Command and the initial settings.           *)

\* self.operands = []; self.argv = argv.copy(); self.argc = len(argv);
\* self.argv_index = 1
NewSession(l, cs, sc, st) ==
    [argv |-> l, argc |-> Len(l), argv_index |-> 1, operands |-> <<>>,
     calls |-> cs, scan |-> sc, reads |-> <<>>, settings |-> st]

\* while self._parse(): pass
RECURSIVE Loop(_)
Continue(r) == IF r.exc = NoExc /\ r.ret THEN Loop(r.self) ELSE r

Loop(self) == Continue(_parse(self))

\* Mutant of Outcome: the except clause prints and falls through to
\* `return False`.
OutcomeReturnsFalse(exc) ==
    [result |-> FALSE,
     propagated |-> IF exc.type \in {"none", "ParsingError"} THEN "none" ELSE exc.type,
     printed |-> IF exc.type = "ParsingError" THEN <<exc.msg>> ELSE <<>>]

\* Mutant of Outcome: no except clause, ParsingError leaves parse.
OutcomePropagates(exc) ==
    [result |-> FALSE,
     propagated |-> exc.type,
     printed |-> <<>>]

\* What parse returns, or the exception that leaves it.
Outcome(exc) ==
    [result |-> (exc.type = "ParsingError"),
     propagated |-> IF exc.type \in {"none", "ParsingError"} THEN "none" ELSE exc.type,
     printed |-> IF exc.type = "ParsingError" THEN <<exc.msg>> ELSE <<>>]

Finished(self, o) ==
    [operands |-> self.operands,
     calls |-> self.calls,
     scan |-> self.scan,
     settings |-> self.settings,
     argv_index |-> self.argv_index,
     stderr |-> o.printed,
     result |-> o.result,
     propagated |-> o.propagated]

Ended(r) == Finished(r.self, Outcome(r.exc))

ParseOf(l) == Ended(Loop(NewSession(l, <<>>, <<>>, InitialSettings)))

----------------------------------------------------------------------------
(* Command.parse as a state machine *)

Self == [argv |-> argv, argc |-> argc, argv_index |-> argv_index,
         operands |-> operands, calls |-> calls, scan |-> scan,
         reads |-> reads, settings |-> settings]

\* Mutant of CallerList: self.argv = argv, without the copy, so that the
\* session and the caller hold the same list.
CallerListShared(l, session_argv) == session_argv

\* The caller's list l once the session's list is session_argv: self.argv is
\* argv.copy(), a list of its own, so writing an element of it leaves l alone.
CallerList(l, session_argv) == l

MaxParses == 2

\* p -vvf x
AnotherList == << <<"p">>, <<"-", "v", "v", "f">>, <<"x">> >>

\* parse(l), up to the try statement.
ParseCall(l) ==
    /\ \E new \in {NewSession(l, <<>>, <<>>, settings)} :
         /\ operands' = new.operands
         /\ argv' = new.argv
         /\ argc' = new.argc
         /\ argv_index' = new.argv_index
         /\ calls' = new.calls
         /\ scan' = new.scan
         /\ reads' = new.reads
    /\ input' = l
    /\ parses' = parses + 1
    /\ steps' = 0
    /\ pc' = "parsing"
    /\ UNCHANGED <<settings, stderr, result, propagated>>
    /\ UNCHANGED helpVars

\* The program's call cmd.parse(sys.argv).
parse ==
    /\ pc = "idle"
    /\ ParseCall(input)

\* One iteration of `while self._parse(): pass` inside the try statement,
\* with the except and else clauses that end it.
Iterate ==
    /\ pc = "parsing"
    /\ \E r \in {_parse(Self)} : \E o \in {Outcome(r.exc)} :
         /\ argv' = r.self.argv
         /\ argc' = r.self.argc
         /\ argv_index' = r.self.argv_index
         /\ operands' = r.self.operands
         /\ calls' = r.self.calls
         /\ scan' = r.self.scan
         /\ reads' = r.self.reads
         /\ settings' = r.self.settings
         /\ stderr' = stderr \o o.printed
         /\ pc' = IF r.exc = NoExc /\ r.ret THEN "parsing" ELSE "done"
         /\ result' = o.result
         /\ propagated' = o.propagated
         /\ input' = CallerList(input, r.self.argv)
    /\ steps' = steps + 1
    /\ UNCHANGED <<parses, helpVars>>

Next == parse \/ Iterate

\* A later call cmd.parse(l) on the same Command, after a call that has
\* returned: with the list of the earlier call, or with another one.
parse_again ==
    /\ pc = "done"
    /\ propagated = "none"
    /\ parses < MaxParses
    /\ \E l \in {input, AnotherList} : ParseCall(l)

NextAgain == parse \/ Iterate \/ parse_again

----------------------------------------------------------------------------
(* print_help: string operations *)

\* A slice bound k as Python normalises it for a string of length n: a
\* negative bound counts from the end, and the result stays within 0..n.
SliceIndex(k, n) ==
    IF k < 0
    THEN (IF n + k < 0 THEN 0 ELSE n + k)
    ELSE (IF k > n THEN n ELSE k)

\* s[:k], for any integer k
SliceTo(s, k) == SubSeq(s, 1, SliceIndex(k, Len(s)))

\* s[k:], for any integer k
SliceFrom(s, k) == SubSeq(s, SliceIndex(k, Len(s)) + 1, Len(s))

\* " " * n, which is empty for n <= 0
Spaces(n) == [i \in 1..n |-> " "]

\* int(MAX_LINE_LENGTH // 1.618): the floor of width / 1.618
MIN_DESCRIPTION_WIDTH(width) == (width * 1000) \div 1618

----------------------------------------------------------------------------
(* print_help.print_block *)

\* get_indent's while loop, from the index indent on.
RECURSIVE get_indent_from(_, _, _)
get_indent_from(s, indent, bullet_point) ==
    IF indent >= Len(s)
    THEN indent
    ELSE IF ~bullet_point /\ At(s, indent) \in {"-", "*"}
    THEN get_indent_from(s, indent + 1,
                         indent + 1 < Len(s) /\ At(s, indent + 1) = " ")
    ELSE IF At(s, indent) # " "
    THEN indent
    ELSE get_indent_from(s, indent + 1, bullet_point)

get_indent(s) == get_indent_from(s, 0, FALSE)

\* next_word_len's for loop, from the index i on.
RECURSIVE next_word_len_from(_, _, _)
next_word_len_from(s, i, ignore_spaces) ==
    IF i >= Len(s)
    THEN Len(s)
    ELSE IF At(s, i) = " " /\ ignore_spaces
    THEN i
    ELSE IF At(s, i) = NL
    THEN (IF i = 0 THEN 1 ELSE i)
    ELSE next_word_len_from(s, i + 1, ignore_spaces \/ At(s, i) # " ")

next_word_len(s) == next_word_len_from(s, 0, FALSE)

\* print_block(string, start_col, indent, file) up to the while loop, called
\* from `caller`.
NewBlock(string, start_col, indent, caller) ==
    [string |-> string,
     col |-> start_col,
     start_col |-> IF start_col > indent THEN indent ELSE start_col,
     indent |-> indent,
     linebreak_encountered |-> FALSE,
     indentation |-> 0,
     caller |-> caller]

\* What one iteration of the while loop leaves: the locals, the characters
\* it printed, and whether it left the loop.
Iteration(b, out, done) == [block |-> b, out |-> out, done |-> done]

\* if word_len == 0: break, and the print(file=file) after the loop.
Break(b) == Iteration(b, <<NL>>, TRUE)

\* if string[0] == "\n": ...; continue
LineBreak(b) ==
    Iteration([b EXCEPT !.col = 0,
                        !.string = SliceFrom(b.string, 1),
                        !.linebreak_encountered = TRUE,
                        !.indentation = 0],
              <<NL>>, FALSE)

\* Mutant of HardSplit: the slice that is printed is one character short of
\* the slice that is removed.
HardSplitDropsOne(b, out, remaining_cols) ==
    IF b.col = b.start_col
         \/ (b.indentation # 0 /\ b.col = b.start_col + b.indentation)
    THEN Iteration([b EXCEPT !.string = SliceFrom(b.string, remaining_cols),
                             !.col = 0],
                   out \o SliceTo(b.string, remaining_cols - 1) \o <<NL>>, FALSE)
    ELSE Iteration([b EXCEPT !.col = 0], out \o <<NL>>, FALSE)

\* if word_len > remaining_cols: ...; continue
HardSplit(b, out, remaining_cols) ==
    IF b.col = b.start_col
         \/ (b.indentation # 0 /\ b.col = b.start_col + b.indentation)
    THEN Iteration([b EXCEPT !.string = SliceFrom(b.string, remaining_cols),
                             !.col = 0],
                   out \o SliceTo(b.string, remaining_cols) \o <<NL>>, FALSE)
    ELSE Iteration([b EXCEPT !.col = 0], out \o <<NL>>, FALSE)

\* print(string[:word_len], ...); string = string[word_len:]; col += word_len
PrintWord(b, out, word_len) ==
    Iteration([b EXCEPT !.string = SliceFrom(b.string, word_len),
                        !.col = b.col + word_len],
              out \o SliceTo(b.string, word_len), FALSE)

\* From remaining_cols = MAX_LINE_LENGTH - col to the end of the loop body.
Place(b, out, word_len, remaining_cols) ==
    IF word_len > remaining_cols
    THEN HardSplit(b, out, remaining_cols)
    ELSE PrintWord(b, out, word_len)

\* indentation = get_indent(string); linebreak_encountered = False
Measure(b) ==
    [b EXCEPT !.indentation = get_indent(b.string),
              !.linebreak_encountered = FALSE]

\* if string[0] == " ": ... at the start of a line, with the line's
\* indentation printed.
LeadingSpace(b, out, word_len, width) ==
    IF b.string[1] = " "
    THEN IF b.linebreak_encountered
         THEN Place(Measure(b), out, word_len, width - b.col)
         ELSE Iteration([b EXCEPT !.string = SliceFrom(b.string, 1)], out, FALSE)
    ELSE Place([b EXCEPT !.linebreak_encountered = FALSE], out, word_len,
               width - b.col)

\* col = start_col; if indentation: col += indentation
Indent(b) == [b EXCEPT !.col = b.start_col + b.indentation]

\* if col == 0: ... printing the spaces up to the column Indent gives.
LineStart(b, word_len, width) ==
    LeadingSpace(b, Spaces(b.col), word_len, width)

\* One iteration of print_block's while loop, given word_len.
Body(b, word_len, width) ==
    IF word_len = 0
    THEN Break(b)
    ELSE IF b.string[1] = NL
    THEN LineBreak(b)
    ELSE IF b.col = 0
    THEN LineStart(Indent(b), word_len, width)
    ELSE Place(b, <<>>, word_len, width - b.col)

print_block_iteration(b, width) == Body(b, next_word_len(b.string), width)

----------------------------------------------------------------------------
(* print_help: the option list *)

\* f" {option.arg}" for a mandatory argument, the bracketed form otherwise.
UsageOfShortArg(option) ==
    IF ~Truthy(option.arg) THEN <<>>
    ELSE IF StartsWith(option.arg, "[") THEN option.arg
    ELSE <<" ">> \o option.arg

UsageOfLongArg(option) ==
    IF ~Truthy(option.arg) THEN <<>>
    ELSE IF StartsWith(option.arg, "[") THEN <<"[", "=">> \o SliceFrom(option.arg, 1)
    ELSE <<" ">> \o option.arg

\* The part of the usage up to the long name.
UsageOfShort(option) ==
    IF Truthy(option.short_name)
    THEN <<"-">> \o option.short_name
           \o (IF ~Truthy(option.long_name) THEN UsageOfShortArg(option)
               ELSE <<",", " ">>)
    ELSE <<" ", " ", " ", " ">>

UsageOfLong(option) ==
    IF Truthy(option.long_name)
    THEN <<"-", "-">> \o option.long_name \o UsageOfLongArg(option)
    ELSE <<>>

create_option_usage(option) ==
    <<" ", " ">> \o UsageOfShort(option) \o UsageOfLong(option) \o <<" ", " ">>

\* str.casefold on the characters of usages: upper case letters become lower
\* case; the value is the character's rank by code point.
CodePointOrder ==
    <<" ", "*", ",", "-", ".", "0", "1", "2", "3", "4", "5", "6", "7", "8", "9",
      "=", "[", "]", "_", "a", "b", "c", "d", "e", "f", "g", "h", "i", "j", "k",
      "l", "m", "n", "o", "p", "q", "r", "s", "t", "u", "v", "w", "x", "y", "z">>

UpperCase ==
    <<"A", "B", "C", "D", "E", "F", "G", "H", "I", "J", "K", "L", "M", "N", "O",
      "P", "Q", "R", "S", "T", "U", "V", "W", "X", "Y", "Z">>

Casefold(c) ==
    IF \E k \in 1..Len(UpperCase) : UpperCase[k] = c
    THEN CodePointOrder[19 + CHOOSE k \in 1..Len(UpperCase) : UpperCase[k] = c]
    ELSE c

Rank(c) == CHOOSE k \in 1..Len(CodePointOrder) : CodePointOrder[k] = Casefold(c)

\* str.casefold(a) < str.casefold(b)
CasefoldLess(a, b) ==
    \E k \in 1..(Len(b)) :
        /\ \A j \in 1..(k - 1) : j <= Len(a) /\ Rank(a[j]) = Rank(b[j])
        /\ (k > Len(a) \/ Rank(a[k]) < Rank(b[k]))

\* list.sort is stable: an entry goes after the entries that are not greater.
RECURSIVE InsertSorted(_, _)
InsertSorted(sorted, entry) ==
    IF sorted = <<>> THEN <<entry>>
    ELSE IF CasefoldLess(entry[1], sorted[Len(sorted)][1])
    THEN Append(InsertSorted(Upto(sorted, Len(sorted) - 1), entry), sorted[Len(sorted)])
    ELSE Append(sorted, entry)

\* if option.hidden: continue
Listed(opts, k) == ~opts[k].hidden

\* create_option_usages: the (usage, description) pairs of the first n
\* options, the hidden ones left out, sorted by the usage's casefold.
RECURSIVE SortedUsages(_, _)
SortedUsages(opts, n) ==
    IF n = 0 THEN <<>>
    ELSE IF Listed(opts, n)
    THEN InsertSorted(SortedUsages(opts, n - 1),
                      <<create_option_usage(opts[n]), opts[n].description>>)
    ELSE SortedUsages(opts, n - 1)

create_option_usages(c) == SortedUsages(c.options, Len(c.options))

\* len(max(option_usages, key=lambda o: len(o[0]))[0])
Longest(option_usages) ==
    CHOOSE n \in {Len(option_usages[k][1]) : k \in 1..Len(option_usages)} :
        \A k \in 1..Len(option_usages) : Len(option_usages[k][1]) <= n

\* Mutant of ClampLongest: the column is raised to the limit, not lowered.
ClampLongestRaises(longest, width) ==
    IF longest < width - MIN_DESCRIPTION_WIDTH(width)
    THEN width - MIN_DESCRIPTION_WIDTH(width)
    ELSE longest

\* if MAX_LINE_LENGTH - longest < MIN_DESCRIPTION_WIDTH: longest = ...
ClampLongest(longest, width) ==
    IF width - longest < MIN_DESCRIPTION_WIDTH(width)
    THEN width - MIN_DESCRIPTION_WIDTH(width)
    ELSE longest

\* option[0] + " " * (longest - len(option[0]))
UsageString(usage, longest) == usage \o Spaces(longest - Len(usage))

----------------------------------------------------------------------------
(* print_help as a state machine *)

\* The iterations in a row that print_block may go without consuming a
\* character of its text before the model stops following it.
MaxIdle == 3

NoBlock == NewBlock(<<>>, 0, 0, "none")

NoHelp == [option_usages |-> <<>>, longest |-> 0, i |-> 0]

\* The first line of a text: what comes before its first newline.
FirstLine(s) == SliceTo(s, IF Find(s, NL) = -1 THEN Len(s) ELSE Find(s, NL))

\* "Usage: "
UsageLabel == <<"U", "s", "a", "g", "e", ":", " ">>

\* "Options:"
OptionsLabel == <<"O", "p", "t", "i", "o", "n", "s", ":">>

\* The iteration on b is the one that handles a newline of the text.
IsLineBreak(b) == b.string # <<>> /\ b.string[1] = NL

\* An iteration that turns the text before into the text after has removed
\* the first part of a word and left the rest of it.
CutsWord(before, after) ==
    /\ after # <<>> /\ Len(after) < Len(before)
    /\ after[1] \notin {" ", NL}
    /\ before[Len(before) - Len(after)] \notin {" ", NL}

\* print_block(string, start_col, indent, file) is called: the frame is set
\* up, and the histories of the call start.
Call_print_block(b) ==
    /\ block' = b
    /\ line' = [text |-> FirstLine(b.string), origin |-> b.col]
    /\ cuts' = 0
    /\ idle' = 0
    /\ pc' = "print_block"

\* print_help(cmd), up to the option list.
print_help ==
    /\ pc = "idle"
    /\ file' = file \o UsageLabel \o cmd.name \o <<" ">> \o cmd.usage \o <<NL>>
    /\ IF Truthy(cmd.manual)
       THEN Call_print_block(NewBlock(<<NL>> \o cmd.manual, 0, 0, "manual"))
       ELSE pc' = "options" /\ UNCHANGED <<block, line, cuts, idle>>
    /\ UNCHANGED <<MAX_LINE_LENGTH, cmd, help, emitted, propagated>>
    /\ UNCHANGED parseVars

\* One iteration of print_block's while loop; the one that breaks also does
\* the print after the loop and returns to the caller.
print_block ==
    /\ pc = "print_block"
    /\ idle < MaxIdle
    /\ \E r \in {print_block_iteration(block, MAX_LINE_LENGTH)} :
         /\ block' = r.block
         /\ file' = file \o r.out
         /\ emitted' = emitted \o r.out
         /\ idle' = IF r.block.string = block.string THEN idle + 1 ELSE 0
         /\ line' = IF IsLineBreak(block)
                    THEN [text |-> FirstLine(r.block.string),
                          origin |-> r.block.start_col]
                    ELSE line
         /\ cuts' = IF CutsWord(block.string, r.block.string) THEN cuts + 1 ELSE cuts
         /\ pc' = IF ~r.done THEN "print_block"
                  ELSE IF block.caller = "manual" THEN "options" ELSE "option"
    /\ UNCHANGED <<MAX_LINE_LENGTH, cmd, help, propagated>>
    /\ UNCHANGED parseVars

\* `if cmd.options:` up to the for loop over the usages.  max() of an empty
\* sequence raises ValueError.
print_options ==
    /\ pc = "options"
    /\ IF cmd.options = <<>>
       THEN /\ pc' = "done"
            /\ UNCHANGED <<file, help, propagated>>
       ELSE /\ file' = file \o <<NL>> \o OptionsLabel \o <<NL>>
            /\ \E option_usages \in {create_option_usages(cmd)} :
                 IF option_usages = <<>>
                 THEN /\ propagated' = "ValueError"
                      /\ pc' = "done"
                      /\ UNCHANGED help
                 ELSE /\ help' = [option_usages |-> option_usages,
                                  longest |-> ClampLongest(Longest(option_usages),
                                                           MAX_LINE_LENGTH),
                                  i |-> 1]
                      /\ pc' = "option"
                      /\ UNCHANGED propagated
    /\ UNCHANGED <<MAX_LINE_LENGTH, cmd, block, emitted, line, cuts, idle>>
    /\ UNCHANGED parseVars

\* for option in option_usages: the usage is printed and print_block called,
\* or the loop and print_help end.
print_option ==
    /\ pc = "option"
    /\ IF help.i > Len(help.option_usages)
       THEN /\ pc' = "done"
            /\ UNCHANGED <<file, emitted, block, help, line, cuts, idle>>
       ELSE \E usage_string \in {UsageString(help.option_usages[help.i][1],
                                             help.longest)} :
              /\ file' = file \o usage_string
              /\ emitted' = emitted \o usage_string
              /\ help' = [help EXCEPT !.i = @ + 1]
              /\ Call_print_block(NewBlock(help.option_usages[help.i][2],
                                           Len(usage_string), help.longest,
                                           "option"))
    /\ UNCHANGED <<MAX_LINE_LENGTH, cmd, propagated>>
    /\ UNCHANGED parseVars

NextHelp == print_help \/ print_block \/ print_options \/ print_option

----------------------------------------------------------------------------
(* Argument lists *)

MaxArgs == 3

\* The lists [prog] \o l with l of at most MaxArgs elements of T.
ArgLists(T) ==
    {<<<<"p">>>> \o l : l \in UNION {[1..k -> T] : k \in 0..MaxArgs}}

\* Every class of element: operands, the end marker, short and long options
\* of each kind, a cluster, unknown options.
CoreTokens ==
    { <<>>, <<"-">>, <<"-", "-">>, <<"x">>,
      <<"-", "v">>, <<"-", "f">>, <<"-", "z">>, <<"-", "v", "f">>, <<"-", "v", "z">>,
      <<"-", "-", "v", "e", "r", "b", "o", "s", "e">>,
      <<"-", "-", "f", "i", "l", "e">>,
      <<"-", "-", "l", "o", "g", "=", "x">>,
      <<"-", "-", "b", "o", "g", "u", "s">> }

\* Option-argument forms: attached and separate, empty and dash-led values,
\* violations of each argument mode.
ArgTokens ==
    { <<"-", "-", "f", "i", "l", "e", "=">>,
      <<"-", "-", "f", "i", "l", "e", "=", "-", "-">>,
      <<"-", "-", "f", "i", "l", "e">>,
      <<"-", "f", "-", "-">>, <<"-", "f", "x">>, <<"-", "f">>,
      <<"-", "-", "l", "o", "g">>, <<"-", "-", "l", "o", "g", "=">>, <<"-", "l">>,
      <<"-", "-", "v", "e", "r", "b", "o", "s", "e", "=">>,
      <<"-", "-", "v", "e", "r", "b", "o", "s", "e", "=", "x">>,
      <<"-", "v">>, <<"-", "-">>, <<"x">>, <<>> }

\* Clusters and the handlers that raise or exit.
HandlerTokens ==
    { <<"-", "v", "v", "f">>, <<"-", "v", "v", "n">>, <<"-", "h", "v", "f">>,
      <<"-", "n">>, <<"-", "n", "9">>, <<"-", "v">>, <<"-", "f">>, <<"-", "v", "-">>,
      <<"9">>, <<"1", "5">>, <<"x">>, <<"-", "-">>, <<>> }

\* Clusters that are rewritten once and twice, ending in an option that
\* takes the next element, in an unknown option or in the end marker's
\* dash, with an operand, a long option and the end marker.
ClusterTokens ==
    { <<"-", "v", "v", "f">>, <<"-", "v", "z">>, <<"-", "v", "-">>, <<"x">>,
      <<"-", "-", "v", "e", "r", "b", "o", "s", "e">>, <<"-", "-">> }

\* The program as it starts: the Command constructed, nothing parsed or
\* printed yet.
InitState(l, width, c) ==
    /\ input = l
    /\ argv = <<>>
    /\ argc = 0
    /\ argv_index = 0
    /\ operands = <<>>
    /\ calls = <<>>
    /\ scan = <<>>
    /\ reads = <<>>
    /\ steps = 0
    /\ settings = InitialSettings
    /\ stderr = <<>>
    /\ pc = "idle"
    /\ result = FALSE
    /\ propagated = "none"
    /\ parses = 0
    /\ MAX_LINE_LENGTH = width
    /\ cmd = c
    /\ file = <<>>
    /\ block = NoBlock
    /\ help = NoHelp
    /\ emitted = <<>>
    /\ line = [text |-> <<>>, origin |-> 0]
    /\ cuts = 0
    /\ idle = 0

\* example.py on a terminal of more than 80 columns, given the arguments l.
InitWith(T) == \E l \in ArgLists(T) : InitState(l, 80, ExampleCommand)

Init == InitWith(CoreTokens)

InitArgs == InitWith(ArgTokens)

InitHandlers == InitWith(HandlerTokens)

InitClusters == InitWith(ClusterTokens)

----------------------------------------------------------------------------
(* Commands and terminals for print_help *)

MaxPieces == 4

\* What the texts are made of: a line break, a space, a bullet marker with
\* its space, a short word and a long one.
TextPieces ==
    { <<NL>>, <<" ">>, <<"-", " ">>, <<"a", "b">>, <<"c", "d", "e", "f", "g">> }

RECURSIVE Flatten(_)
Flatten(l) == IF l = <<>> THEN <<>> ELSE l[1] \o Flatten(Tail(l))

\* The texts of at most MaxPieces pieces.
Texts == {Flatten(l) : l \in UNION {[1..k -> TextPieces] : k \in 0..MaxPieces}}

\* Options shaped as example.py's -v/--verbose, -l/--log [LOG_FILE] and
\* -n NUMBER, with the description d, listed or hidden.
OptionLike(k, d, hidden) == [options[k] EXCEPT !.description = d, !.hidden = hidden]

\* Registries: none, one option with any text as its description, or two
\* options with fixed descriptions, each listed or hidden.
Registries ==
    {<<OptionLike(k, d, h)>> : k \in {1, 5}, d \in Texts, h \in {FALSE}}
    \cup {<<OptionLike(1, <<"a", "b">>, h1), OptionLike(k, <<"a", "b", " ", "a", "b">>, h2)>> :
             k \in {4, 5}, h1 \in BOOLEAN, h2 \in BOOLEAN}
    \cup {<<OptionLike(k, <<"a", "b">>, TRUE)>> : k \in {1, 5}}

\* A Command named p with the usage u.
CommandWith(manual, registry) ==
    [name |-> <<"p">>, usage |-> <<"u">>, manual |-> manual, options |-> registry]

\* Commands with a manual and no options, and commands with options and no
\* manual.
Commands ==
    {CommandWith(m, <<>>) : m \in Texts \cup {None}}
    \cup {CommandWith(None, r) : r \in Registries}

\* example.py's command on terminals of 20, 40 and at least 80 columns, and
\* the small commands on terminals of 3 and 6 columns.
HelpInputs == ({ExampleCommand} \X {20, 40, 80}) \cup (Commands \X {3, 6})

InitHelp ==
    \E h \in HelpInputs : InitState(<< <<"p">> >>, h[2], h[1])

SpecHelp == InitHelp /\ [][NextHelp]_vars

Spec == Init /\ [][Next]_vars

SpecArgs == InitArgs /\ [][Next]_vars

SpecHandlers == InitHandlers /\ [][Next]_vars

\* parse runs its loop to the end: nothing outside the program stops it
\* between two calls of _parse (argparser.py:205-207).
SpecAgain == InitClusters /\ [][NextAgain]_vars

SpecClustersFair == InitClusters /\ [][Next]_vars /\ WF_vars(Next)

----------------------------------------------------------------------------
(* Vocabulary of the properties *)

\* How an option takes its argument, by the rules of Option's docstring.
ArgMode(option) ==
    IF option.arg = None \/ option.arg = <<>> THEN "none"
    ELSE IF option.arg[1] = "[" THEN "optional" ELSE "mandatory"

OptionsOfMode(mode) == {i \in 1..Len(options) : ArgMode(options[i]) = mode}

LongToken(i) == <<"-", "-">> \o options[i].long_name

ShortToken(i) == <<"-">> \o options[i].short_name

HasLong(i) == options[i].long_name # None

HasShort(i) == options[i].short_name # None /\ options[i].short_name # <<"-">>

\* An element that is an operand by its shape alone.
OperandShaped(tok) == tok = <<>> \/ tok = <<"-">> \/ tok[1] # "-"

EndMarker == <<"-", "-">>

\* The invocations as (option, arguments) pairs.
CallList(cs) == [k \in 1..Len(cs) |-> <<cs[k].option, cs[k].args>>]

\* The handler of option i returns normally on these arguments.
HandlerReturns(i, args) ==
    RunCallback(options[i].callback, args, InitialSettings).exc = NoExc

\* The ways to read tok as option \o attached value of a mandatory option:
\* --name=VAL, or -cVAL with VAL non-empty.
AttachedSplits(tok) ==
    { [option |-> i, opt |-> LongToken(i), val |-> From(tok, Len(LongToken(i)) + 1)] :
        i \in {j \in OptionsOfMode("mandatory") :
                 /\ HasLong(j)
                 /\ Len(tok) > Len(LongToken(j))
                 /\ Upto(tok, Len(LongToken(j)) + 1) = LongToken(j) \o <<"=">>} }
    \cup
    { [option |-> i, opt |-> ShortToken(i), val |-> From(tok, 2)] :
        i \in {j \in OptionsOfMode("mandatory") :
                 HasShort(j) /\ Len(tok) > 2 /\ Upto(tok, 2) = ShortToken(j)} }

\* The list l with the element at Python index pos replaced by opt, val.
Separated(l, pos, opt, val) == Upto(l, pos) \o <<opt, val>> \o From(l, pos + 1)

\* The state the call has left behind agrees with r on everything observable.
SameObservable(r) ==
    /\ CallList(r.calls) = CallList(calls)
    /\ r.operands = operands
    /\ r.settings = settings
    /\ r.stderr = stderr
    /\ r.result = result
    /\ r.propagated = propagated

----------------------------------------------------------------------------
(* C1 *)

\* C1: when a mandatory-argument option is scanned in its attached form
\* (--opt=VAL, or -oVAL with VAL non-empty) as the caller passed it, the
\* finished parse agrees with the parse of the same list with the separated
\* form (--opt VAL, -o VAL) in its place: same handler invocations with the
\* same arguments, same operands, settings, messages and outcome.  In the
\* separated parse the handler gets VAL, taken from the following element,
\* and that element is never read at the cursor: it is not classified as an
\* option, end marker or operand.
C1_AttachedEqualsSeparated ==
    pc = "done" =>
      \A k \in 1..Len(scan) :
        scan[k].arg = At(input, scan[k].pos) =>
          \A f \in AttachedSplits(scan[k].arg) :
            LET pos == scan[k].pos
                r == ParseOf(Separated(input, pos, f.opt, f.val))
            IN  /\ SameObservable(r)
                /\ \E m \in 1..Len(calls) :
                      calls[m] = [option |-> f.option, args |-> <<f.val>>, step |-> k]
                /\ \E m \in 1..Len(r.calls) :
                      r.calls[m] = [option |-> f.option, args |-> <<f.val>>, step |-> k]
                /\ r.scan[k] = [pos |-> pos, arg |-> f.opt]
                /\ \A j \in 1..Len(r.scan) : r.scan[j].pos # pos + 1

\* A finished parse that scanned --file=-- and went on to a later element.
C1_Witness ==
    /\ pc = "done"
    /\ \E k \in 1..Len(scan) :
         /\ scan[k].arg = <<"-", "-", "f", "i", "l", "e", "=", "-", "-">>
         /\ k < Len(scan)
         /\ \E m \in 1..Len(calls) : calls[m].step = k /\ calls[m].args = <<EndMarker>>

----------------------------------------------------------------------------
(* C2 *)

\* The readings of the caller's list as [prog, -abc, X] with a and b options
\* that take no argument and c an option that takes a mandatory argument.
ClusterReadings ==
    { t \in OptionsOfMode("none") \X OptionsOfMode("none") \X OptionsOfMode("mandatory") :
        /\ HasShort(t[1]) /\ HasShort(t[2]) /\ HasShort(t[3])
        /\ Len(input) = 3
        /\ input[2] = <<"-">> \o options[t[1]].short_name \o options[t[2]].short_name
                             \o options[t[3]].short_name }

\* [prog, -a, -b, -c, X]
Unclustered(t) ==
    <<input[1], ShortToken(t[1]), ShortToken(t[2]), ShortToken(t[3]), input[3]>>

\* a, then b, then c with argument X
Invocations(t) == << <<t[1], <<>> >>, <<t[2], <<>> >>, <<t[3], <<input[3]>> >> >>

\* How many of the invocations run: up to and including the first whose
\* handler raises.
Reached(t) ==
    LET raising == {k \in 1..3 : ~HandlerReturns(Invocations(t)[k][1], Invocations(t)[k][2])}
    IN  IF raising = {} THEN 3 ELSE Min(raising)

\* C2 as stated: parse of [prog, -abc, X] and of [prog, -a, -b, -c, X] give
\* the same invocations a, b, c(X), the same empty operands and success.
C2_Original ==
    pc = "done" =>
      \A t \in ClusterReadings :
        /\ SameObservable(ParseOf(Unclustered(t)))
        /\ CallList(calls) = Invocations(t)
        /\ operands = <<>>
        /\ result = FALSE /\ propagated = "none"

\* C2, amended: parse of [prog, -abc, X] and of [prog, -a, -b, -c, X] give
\* the same handler invocations, the same empty operands and the same
\* outcome; the invocations are a, b, c(X) up to and including the first
\* handler that raises, and the outcome is success exactly when none raises.
C2_ClusterEqualsUnclustered ==
    pc = "done" =>
      \A t \in ClusterReadings :
        /\ SameObservable(ParseOf(Unclustered(t)))
        /\ CallList(calls) = Upto(Invocations(t), Reached(t))
        /\ operands = <<>>
        /\ (result = FALSE /\ propagated = "none")
              <=> \A k \in 1..3 : HandlerReturns(Invocations(t)[k][1], Invocations(t)[k][2])

\* A finished parse of [prog, -vvf, --]: three invocations, the last with
\* the argument "--".
C2_Witness ==
    /\ pc = "done"
    /\ input = << <<"p">>, <<"-", "v", "v", "f">>, EndMarker >>
    /\ Len(calls) = 3
    /\ calls[3].args = <<EndMarker>>

----------------------------------------------------------------------------
(* C3 *)

\* The number of operand-shaped elements read before scan step k.
OperandsReadBefore(k) == Cardinality({j \in 1..(k - 1) : OperandShaped(scan[j].arg)})

\* C3: when the element read at the cursor is exactly "--", that step ends
\* the parse with success; the operands are the ones collected before it
\* followed by every later element of the caller's list, verbatim and in
\* order (the "--" itself is not among them), and no handler is invoked at
\* or after that step.
C3_EndOfOptions ==
    \A k \in 1..Len(scan) :
      scan[k].arg = EndMarker =>
        LET rest == From(input, scan[k].pos + 1)
        IN  /\ k = Len(scan)
            /\ pc = "done" /\ result = FALSE /\ propagated = "none" /\ stderr = <<>>
            /\ Len(operands) = OperandsReadBefore(k) + Len(rest)
            /\ From(operands, OperandsReadBefore(k)) = rest
            /\ \A m \in 1..Len(calls) : calls[m].step < k

\* prog x -- -v: the element after the marker is an operand although it
\* looks like an option.
C3_Witness ==
    /\ pc = "done"
    /\ Len(scan) = 2 /\ scan[2].arg = EndMarker
    /\ operands = << <<"x">>, <<"-", "v">> >>

----------------------------------------------------------------------------
(* C4, C5 *)

\* The invocations made at scan step k.
CallsAt(k) == {m \in 1..Len(calls) : calls[m].step = k}

\* C4: for an option whose argument is optional, the token --opt invokes the
\* handler with None and the token --opt= invokes it with the empty string,
\* which is not None; with example.py's handler, --opt= as the last option
\* leaves log_file empty, --opt alone leaves it as it was.
C4_OptionalAbsentOrEmpty ==
    \A k \in 1..Len(scan) : \A i \in OptionsOfMode("optional") :
      HasLong(i) =>
        /\ scan[k].arg = LongToken(i) =>
             /\ \E m \in CallsAt(k) : calls[m].option = i /\ calls[m].args = <<None>>
             /\ \A m \in CallsAt(k) : calls[m].args # << <<>> >>
             /\ (Len(calls) = 1 /\ options[i].callback = "log") =>
                   settings.log_enabled /\ settings.log_file = InitialSettings.log_file
        /\ scan[k].arg = LongToken(i) \o <<"=">> =>
             /\ \E m \in CallsAt(k) : calls[m].option = i /\ calls[m].args = << <<>> >>
             /\ \A m \in CallsAt(k) : calls[m].args # <<None>>
             /\ (Len(calls) = 1 /\ options[i].callback = "log") =>
                   settings.log_enabled /\ settings.log_file = <<>>

\* Both forms have been parsed in one call: --log= then --log.
C4_Witness ==
    /\ pc = "done"
    /\ Len(scan) = 2
    /\ scan[1].arg = <<"-", "-", "l", "o", "g", "=">>
    /\ scan[2].arg = <<"-", "-", "l", "o", "g">>
    /\ CallList(calls) = << <<4, << <<>> >> >>, <<4, <<None>> >> >>

\* C5: an optional-argument option given as --opt or -o with nothing
\* attached never takes the following element: its handler gets None, the
\* cursor moves on by exactly one element, and the next element is read at
\* the cursor as the caller passed it and classified on its own (an
\* operand-shaped one becomes the next operand).
C5_OptionalNeverConsumes ==
    \A k \in 1..Len(scan) : \A i \in OptionsOfMode("optional") :
      (scan[k].arg = LongToken(i) \/ scan[k].arg = ShortToken(i)) =>
        /\ \A m \in CallsAt(k) : calls[m].args = <<None>>
        /\ CallsAt(k) # {}
        /\ k = Len(scan) =>
             argv_index = scan[k].pos + 1 /\ result = FALSE /\ propagated = "none"
        /\ scan[k].pos + 1 < Len(input) =>
             /\ pc = "parsing" \/ k < Len(scan)
             /\ k < Len(scan) =>
                  /\ scan[k + 1] = [pos |-> scan[k].pos + 1,
                                    arg |-> At(input, scan[k].pos + 1)]
                  /\ OperandShaped(scan[k + 1].arg) =>
                       /\ Len(operands) > OperandsReadBefore(k + 1)
                       /\ operands[OperandsReadBefore(k + 1) + 1] = scan[k + 1].arg

\* prog -l x --log: the operand after -l is kept, both handlers ran.
C5_Witness ==
    /\ pc = "done"
    /\ input = << <<"p">>, <<"-", "l">>, <<"x">>, <<"-", "-", "l", "o", "g">> >>
    /\ operands = << <<"x">> >>
    /\ Len(calls) = 2

----------------------------------------------------------------------------
(* C6, C7 *)

\* The name of a long option token: what follows "--", up to the first "=".
LongNameOf(tok) ==
    LET rest == From(tok, 2)
        eqs == {j \in 1..Len(rest) : rest[j] = "="}
    IN  IF eqs = {} THEN rest ELSE Upto(rest, Min(eqs) - 1)

LongShaped(tok) == Len(tok) > 2 /\ tok[1] = "-" /\ tok[2] = "-"

ShortShaped(tok) == Len(tok) >= 2 /\ tok[1] = "-" /\ tok[2] # "-"

\* The options a token names (none, when it names an unknown option).
NamedBy(tok) ==
    IF LongShaped(tok)
    THEN {i \in 1..Len(options) : options[i].long_name = LongNameOf(tok)}
    ELSE IF ShortShaped(tok)
    THEN {i \in 1..Len(options) : options[i].short_name = <<tok[2]>>}
    ELSE {}

\* The parse has stopped at scan step k with this one message and failure,
\* with no handler invoked at or after step k.
FailedAt(k, msg) ==
    /\ k = Len(scan)
    /\ pc = "done" /\ result = TRUE /\ propagated = "none"
    /\ stderr = <<msg>>
    /\ MsgNonEmpty(msg)
    /\ \A m \in 1..Len(calls) : calls[m].step < k

\* C6: when the token read at the cursor names an option that is not
\* registered (--bogus, or -z as the first character after "-"), parse
\* returns the failure outcome, no handler is invoked for that token or any
\* later element, and a non-empty message naming the option is printed.
C6_UnknownOption ==
    \A k \in 1..Len(scan) :
      LET tok == scan[k].arg
      IN  ((LongShaped(tok) \/ ShortShaped(tok)) /\ NamedBy(tok) = {}) =>
            FailedAt(k, IF LongShaped(tok)
                        THEN Msg("Unknown option: --", LongNameOf(tok), "")
                        ELSE Msg("Unknown option: -", <<tok[2]>>, ""))

\* prog -v --bogus x: the handler of -v ran, then the parse failed.
C6_Witness ==
    /\ pc = "done" /\ result = TRUE
    /\ input = << <<"p">>, <<"-", "v">>, <<"-", "-", "b", "o", "g", "u", "s">>, <<"x">> >>
    /\ Len(calls) = 1
    /\ operands = <<>>

\* C7: a long option that takes no argument, given with an attached =VALUE
\* (the empty one included), fails with "does not allow an argument"; a
\* mandatory-argument option, long or short, with nothing attached and no
\* element after it fails with "requires an argument"; in both cases the
\* option's handler is not invoked and the parse stops there with failure.
C7_ArgumentViolation ==
    \A k \in 1..Len(scan) :
      LET tok == scan[k].arg
      IN  /\ \A i \in OptionsOfMode("none") :
               (HasLong(i) /\ Len(tok) > Len(LongToken(i))
                  /\ Upto(tok, Len(LongToken(i)) + 1) = LongToken(i) \o <<"=">>) =>
                 FailedAt(k, Msg("Option --", options[i].long_name,
                                 " does not allow an argument."))
          /\ \A i \in OptionsOfMode("mandatory") :
               scan[k].pos = Len(input) - 1 =>
                 /\ (HasLong(i) /\ tok = LongToken(i)) =>
                      FailedAt(k, Msg("Option --", options[i].long_name,
                                      " requires an argument."))
                 /\ (HasShort(i) /\ tok = ShortToken(i)) =>
                      FailedAt(k, Msg("Option -", options[i].short_name,
                                      " requires an argument."))

\* prog x --verbose= -v: the empty attached value is refused, no handler ran.
C7_Witness ==
    /\ pc = "done" /\ result = TRUE
    /\ input = << <<"p">>, <<"x">>,
                  <<"-", "-", "v", "e", "r", "b", "o", "s", "e", "=">>, <<"-", "v">> >>
    /\ operands = << <<"x">> >>
    /\ calls = <<>>

\* prog -v x -f: the trailing -f has no argument left; only -v's handler ran.
C7_WitnessMissing ==
    /\ pc = "done" /\ result = TRUE
    /\ input = << <<"p">>, <<"-", "v">>, <<"x">>, <<"-", "f">> >>
    /\ Len(calls) = 1
    /\ argv_index = 4

----------------------------------------------------------------------------
(* C8 *)

\* C8: every invocation belongs to the scan step that read its option (the
\* handler is the one the token names, and no later element had been read
\* when it ran); the steps of successive invocations strictly increase, so
\* no occurrence is handled twice and handlers run in scan order; the scan
\* moves left to right, staying on an element only to read the next member
\* of a cluster; and every step that read a registered option has exactly
\* one invocation, unless that step ended the parse with an argument
\* violation.
C8_HandlersOncePerOccurrenceInOrder ==
    /\ \A m \in 1..Len(calls) :
         /\ calls[m].step \in 1..Len(scan)
         /\ calls[m].option \in NamedBy(scan[calls[m].step].arg)
         /\ m > 1 => calls[m - 1].step < calls[m].step
    /\ \A k \in 1..Len(scan) :
         /\ k > 1 =>
              \/ scan[k - 1].pos < scan[k].pos
              \/ /\ scan[k - 1].pos = scan[k].pos
                 /\ ShortShaped(scan[k - 1].arg)
                 /\ scan[k].arg = <<"-">> \o From(scan[k - 1].arg, 2)
         /\ (\E i \in NamedBy(scan[k].arg) : options[i].callback # "none") =>
              \/ Cardinality(CallsAt(k)) = 1
              \/ /\ CallsAt(k) = {}
                 /\ k = Len(scan) /\ pc = "done" /\ result = TRUE
                 /\ Len(stderr) = 1 /\ stderr[1].head \in {"Option --", "Option -"}

\* prog -vvf x -v: a cluster with a repeated member, then the same option
\* again; four invocations at four successive steps.
C8_Witness ==
    /\ pc = "done"
    /\ input = << <<"p">>, <<"-", "v", "v", "f">>, <<"x">>, <<"-", "v">> >>
    /\ CallList(calls) = << <<1, <<>> >>, <<1, <<>> >>, <<2, << <<"x">> >> >>, <<1, <<>> >> >>
    /\ \A m \in 1..4 : calls[m].step = m

----------------------------------------------------------------------------
(* C9 *)

\* What the handler of an invocation raises, if anything.
RaisedBy(call) ==
    RunCallback(options[call.option].callback, call.args, InitialSettings).exc

\* The settings after the handlers of the first n invocations, run in order
\* on the initial settings.
RECURSIVE Replay(_)
Replay(n) ==
    IF n = 0 THEN InitialSettings
    ELSE RunCallback(options[calls[n].option].callback, calls[n].args,
                     Replay(n - 1)).settings

\* C9: if a handler raises ParsingError, the parse stops at that option: it
\* is the last invocation, made at the last scan step; no later element is
\* read or added to the operands; its message is printed and parse returns
\* True instead of letting the exception out; the settings are what the
\* earlier handlers left.
C9_HandlerParsingError ==
    \A m \in 1..Len(calls) :
      RaisedBy(calls[m]).type = "ParsingError" =>
        /\ m = Len(calls)
        /\ calls[m].step = Len(scan)
        /\ pc = "done" /\ result = TRUE /\ propagated = "none"
        /\ stderr = <<RaisedBy(calls[m]).msg>>
        /\ MsgNonEmpty(stderr[1])
        /\ Len(operands) = OperandsReadBefore(Len(scan))
        /\ settings = Replay(m - 1)

\* prog -v -n9 x: -v's effect stays, -n's handler refuses 9, x is never read.
C9_Witness ==
    /\ pc = "done" /\ result = TRUE
    /\ input = << <<"p">>, <<"-", "v">>, <<"-", "n", "9">>, <<"x">> >>
    /\ settings.verbose_flag
    /\ operands = <<>>
    /\ Len(scan) = 2

----------------------------------------------------------------------------
(* C10 *)

ReadPositions == {scan[k].pos : k \in 1..Len(scan)}

\* The operand-shaped elements of the caller's list among the positions
\* 1..n that were read at the cursor, in order.
RECURSIVE OperandsUpTo(_)
OperandsUpTo(n) ==
    IF n <= 0 THEN <<>>
    ELSE OperandsUpTo(n - 1)
           \o (IF n \in ReadPositions /\ OperandShaped(At(input, n))
               THEN <<At(input, n)>> ELSE <<>>)

\* C10: until an end-of-options marker is handled, operands is the in-order
\* list of the elements before the cursor that were read at the cursor and
\* are operands (empty, a bare "-", or not starting with "-"); element 0 is
\* never among them; an element before the cursor that was not read was
\* taken as the argument of the mandatory-argument option just before it;
\* an option read after operands is still handled as an option; and this
\* holds as well of the state a failed parse leaves.
C10_OperandsInOrder ==
    (\A k \in 1..Len(scan) : scan[k].arg # EndMarker) =>
      /\ operands = OperandsUpTo(argv_index - 1)
      /\ 0 \notin ReadPositions
      /\ \A p \in 1..(argv_index - 1) :
           (p < Len(input) /\ p \notin ReadPositions) =>
             \E k \in 1..Len(scan) : \E i \in OptionsOfMode("mandatory") :
               /\ scan[k].pos = p - 1
               /\ scan[k].arg \in {LongToken(i), ShortToken(i)}
               /\ \A m \in CallsAt(k) : calls[m].args = <<At(input, p)>>
               /\ CallsAt(k) # {}
      /\ \A k \in 1..Len(scan) :
           (OperandsReadBefore(k) > 0 /\ NamedBy(scan[k].arg) # {}) =>
             \/ CallsAt(k) # {}
             \/ k = Len(scan) /\ pc = "done" /\ result = TRUE

\* prog x -f x: the first x is an operand, the second is -f's argument.
C10_Witness ==
    /\ pc = "done"
    /\ input = << <<"p">>, <<"x">>, <<"-", "f">>, <<"x">> >>
    /\ operands = << <<"x">> >>
    /\ Len(calls) = 1 /\ calls[1].args = << <<"x">> >>

\* prog - --file: the bare "-" stays an operand when the parse fails at
\* --file, which has no argument left.
C10_WitnessFailure ==
    /\ pc = "done" /\ result = TRUE
    /\ input = << <<"p">>, <<"-">>, <<"-", "-", "f", "i", "l", "e">> >>
    /\ operands = << <<"-">> >>

----------------------------------------------------------------------------
(* C11 *)

\* Position i of s starts more than n characters in a row without a newline.
RunLongerThan(s, i, n) == i + n <= Len(s) /\ \A j \in i..(i + n) : s[j] # NL

\* C11: no line printed by print_block and by the option list of print_help
\* is longer than MAX_LINE_LENGTH characters.
C11_NoLineTooLong ==
    \A i \in 1..Len(emitted) : ~RunLongerThan(emitted, i, MAX_LINE_LENGTH)

----------------------------------------------------------------------------
(* C12 *)

\* The number of spaces s has from the index i on.
RECURSIVE SpacesFrom(_, _)
SpacesFrom(s, i) ==
    IF i < Len(s) /\ At(s, i) = " " THEN 1 + SpacesFrom(s, i + 1) ELSE 0

\* A bulleted line: after zero or more spaces, a "-" or "*" marker followed
\* by a space.
Bulleted(s) ==
    /\ SpacesFrom(s, 0) + 1 < Len(s)
    /\ At(s, SpacesFrom(s, 0)) \in {"-", "*"}
    /\ At(s, SpacesFrom(s, 0) + 1) = " "

\* Where the content of a bulleted line starts, counted from the start of
\* the line: after the marker and the spaces that follow it.
ContentStart(s) == SpacesFrom(s, 0) + 1 + SpacesFrom(s, SpacesFrom(s, 0) + 1)

\* print_block is about to start a wrapped line: a line of the output that
\* continues a line of the text, with some of that text left to print.
WrappedLineDue ==
    /\ pc = "print_block"
    /\ block.col = 0 /\ ~block.linebreak_encountered
    /\ block.string # <<>> /\ block.string[1] # NL
    /\ Len(FirstLine(block.string)) < Len(line.text)

\* C12: every wrapped continuation line of a bulleted line of the text (a
\* "-" or "*" marker and a space after zero or more spaces) starts with at
\* least as many spaces as the column where the bullet's content starts.
C12_BulletContinuationsIndented ==
    (WrappedLineDue /\ Bulleted(line.text)) =>
        block.start_col + block.indentation >= line.origin + ContentStart(line.text)

----------------------------------------------------------------------------
(* C13 *)

\* A character of a word: neither a space nor a newline.
Ink(c) == c \notin {" ", NL}

\* The characters of the words of s, in order.
InkOf(s) == SelectSeq(s, Ink)

\* How many characters of words s has among its first i characters.
InkBefore(s, i) == Cardinality({j \in 1..i : Ink(s[j])})

\* Where the words of s end, each end given as the number of characters of
\* words up to it.  Two texts have the same whitespace-delimited words, in
\* the same order, exactly when they agree on InkOf and on WordEnds.
WordEnds(s) ==
    {InkBefore(s, i) : i \in {j \in 1..Len(s) :
                                Ink(s[j]) /\ (j = Len(s) \/ ~Ink(s[j + 1]))}}

\* print_block has just returned from printing the manual.
ManualPrinted == pc = "options" /\ block.caller = "manual"

\* C13 as stated: the whitespace-delimited words of what print_block printed
\* for the manual are exactly the words of the manual, each once and in the
\* same order, whatever the text and the line width.
C13_Original ==
    ManualPrinted =>
        /\ InkOf(emitted) = InkOf(cmd.manual)
        /\ WordEnds(emitted) = WordEnds(cmd.manual)

\* C13, amended: at every point of printing the manual, the characters of
\* words printed so far followed by those of the text still to print are
\* those of the manual, so none is lost, repeated or altered; when
\* print_block has returned, every word of the manual ends where a word of
\* the output ends, so no two words have run together, and the output has
\* one more word for each time print_block ended a line inside a word
\* (the hard split at the width boundary): with no such split the words of
\* the output are exactly the words of the manual.
C13_WordsKeptButForHardSplits ==
    block.caller = "manual" =>
        /\ InkOf(emitted) \o InkOf(block.string) = InkOf(cmd.manual)
        /\ ManualPrinted =>
             /\ block.string = <<>>
             /\ WordEnds(cmd.manual) \subseteq WordEnds(emitted)
             /\ Cardinality(WordEnds(emitted)) = Cardinality(WordEnds(cmd.manual)) + cuts

\* The manual "ab cdefg" on a terminal of 3 columns: the second word is
\* printed as "cde" and "fg".
C13_Witness ==
    /\ ManualPrinted
    /\ MAX_LINE_LENGTH = 3
    /\ cmd.manual = <<"a", "b", " ", "c", "d", "e", "f", "g">>
    /\ cuts = 1
    /\ emitted = <<NL, "a", "b", NL, "c", "d", "e", NL, "f", "g", NL>>

\* example.py's manual printed at 80 columns: no word is split.
C13_WitnessExample ==
    /\ ManualPrinted
    /\ MAX_LINE_LENGTH = 80
    /\ cmd = ExampleCommand
    /\ cuts = 0
    /\ WordEnds(emitted) = WordEnds(cmd.manual)

----------------------------------------------------------------------------
(* C14 *)

\* The usages of the options of c that are not hidden.
ListedUsages(c) ==
    {create_option_usage(c.options[k]) : k \in {j \in 1..Len(c.options) : ~c.options[j].hidden}}

\* The length of the longest left-hand usage fragment among the options of c
\* that are not hidden.
LongestListed(c) ==
    CHOOSE n \in {Len(u) : u \in ListedUsages(c)} : \A u \in ListedUsages(c) : Len(u) <= n

\* MAX_LINE_LENGTH - MIN_DESCRIPTION_WIDTH
ColumnLimit == MAX_LINE_LENGTH - MIN_DESCRIPTION_WIDTH(MAX_LINE_LENGTH)

\* print_help has computed the description column and is printing entries.
ColumnComputed == help.i > 0

\* print_block has not yet come to a newline of the text it was given.
OnFirstLine(text) == Find(SliceTo(text, Len(text) - Len(block.string)), NL) = -1

\* C14 as stated: the description column is the larger of the longest
\* left-hand usage fragment and MAX_LINE_LENGTH - MIN_DESCRIPTION_WIDTH.
C14_Original ==
    ColumnComputed =>
        help.longest = IF LongestListed(cmd) > ColumnLimit
                       THEN LongestListed(cmd) ELSE ColumnLimit

\* C14, amended: the description column is the smaller of the longest
\* left-hand usage fragment among the options that are not hidden and
\* MAX_LINE_LENGTH - MIN_DESCRIPTION_WIDTH.  Every entry's usage is padded
\* to it, every line of a description after the first starts at it, and the
\* first starts at it on the usage's line unless the usage is longer, where
\* the description starts right after the usage.
C14_DescriptionColumn ==
    ColumnComputed =>
        /\ help.longest = IF LongestListed(cmd) < ColumnLimit
                          THEN LongestListed(cmd) ELSE ColumnLimit
        /\ block.caller = "option" =>
             /\ block.indent = help.longest
             /\ block.start_col = help.longest
             /\ line.origin = IF OnFirstLine(help.option_usages[help.i - 1][2])
                                   /\ Len(help.option_usages[help.i - 1][1]) > help.longest
                              THEN Len(help.option_usages[help.i - 1][1])
                              ELSE help.longest

\* example.py's options at 80 columns: the longest usage has 24 characters,
\* less than the limit of 31, and -v's description starts at column 24.
C14_Witness ==
    /\ pc = "print_block" /\ block.caller = "option"
    /\ cmd = ExampleCommand /\ MAX_LINE_LENGTH = 80
    /\ ColumnLimit = 31
    /\ help.longest = 24
    /\ help.i = 6 /\ line.origin = 24 /\ line.text = Description_v

\* example.py's options at 20 columns: the column is the limit of 8, and a
\* wrapped line of a description is about to start there.
C14_WitnessClamped ==
    /\ WrappedLineDue /\ block.caller = "option"
    /\ cmd = ExampleCommand /\ MAX_LINE_LENGTH = 20
    /\ LongestListed(cmd) = 24
    /\ help.longest = 8 /\ block.start_col = 8

----------------------------------------------------------------------------
(* C15, C16 *)

\* s occurs in t from position i on.
OccursAt(s, t, i) == i + Len(s) - 1 <= Len(t) /\ SubSeq(t, i, i + Len(s) - 1) = s

\* How many times the line "Options:" has been printed.
HeadersPrinted ==
    Cardinality({i \in 1..Len(file) : OccursAt(<<NL>> \o OptionsLabel \o <<NL>>, file, i)})

\* How many entries of the option list have been printed.
EntriesPrinted == IF help.i = 0 THEN 0 ELSE help.i - 1

\* The options of the registry that are not hidden.
ListedOptions == {k \in 1..Len(cmd.options) : ~cmd.options[k].hidden}

\* C15: print_help prints the `Options:` header exactly when the registry
\* has an option that is not hidden, then one entry for each such option and
\* none for a hidden one, and it returns normally whatever the registry,
\* the empty one and one whose options are all hidden included.
C15_OptionList ==
    /\ HeadersPrinted = 1 => ListedOptions # {}
    /\ HeadersPrinted <= 1
    /\ propagated = "none"
    /\ pc = "done" =>
          /\ ListedOptions # {} => HeadersPrinted = 1
          /\ EntriesPrinted = Cardinality(ListedOptions)
          /\ \A k \in 1..EntriesPrinted :
               \E j \in ListedOptions :
                  help.option_usages[k] = <<create_option_usage(cmd.options[j]),
                                            cmd.options[j].description>>

\* C16: print_block returns for every text, start column, indent column and
\* MAX_LINE_LENGTH >= 1, and the last thing it prints is a newline: an
\* iteration of its loop that consumes no character of the text is followed
\* by one that does, so there are never two such iterations in a row.
C16_LoopConsumes ==
    /\ idle <= 1
    /\ (block.caller # "none" /\ pc # "print_block") =>
          block.string = <<>> /\ emitted[Len(emitted)] = NL

----------------------------------------------------------------------------
(* C17 *)

\* The number of characters of the elements of l.
RECURSIVE Chars(_)
Chars(l) == IF l = <<>> THEN 0 ELSE Len(l[1]) + Chars(Tail(l))

\* The step leaves the cursor in place and replaces the element at the
\* cursor, and no other, by a strictly shorter one.
ShortensCurrent ==
    /\ argv_index' = argv_index
    /\ argv_index < argc
    /\ argv' = [argv EXCEPT ![argv_index + 1] = argv'[argv_index + 1]]
    /\ Len(argv'[argv_index + 1]) < Len(argv[argv_index + 1])

Progress == argv_index' > argv_index \/ ShortensCurrent

StepsBounded == steps <= Len(input) + Chars(input)

\* C17: parse terminates for every argument list, with handlers that
\* return: each call of _parse either ends the loop (it returns False or
\* raises) or has advanced the cursor by at least one position, or left it
\* in place and replaced the current element by a strictly shorter one; so
\* the number of calls of _parse is at most the number of elements plus
\* the number of characters of the argument list, and parse comes to its
\* end.
C17_ParseTerminates ==
    /\ [][(pc = "parsing" /\ pc' = "parsing") => Progress]_vars
    /\ [](StepsBounded)
    /\ <>(pc = "done")

\* A parse that has ended after rewriting a cluster twice and advancing
\* past it: p -vvf x.
C17_Witness ==
    /\ pc = "done"
    /\ input = << <<"p">>, <<"-", "v", "v", "f">>, <<"x">> >>
    /\ steps = 4
    /\ argv = << <<"p">>, <<"-", "f">>, <<"x">> >>
    /\ argv_index = 3

----------------------------------------------------------------------------
(* C18 *)

\* The positions the step has read.
NewReads == {reads'[k] : k \in (Len(reads) + 1)..Len(reads')}

\* The positions of the session's argument sequence the step has written.
Written == {k \in 0..(argc - 1) : At(argv', k) # At(argv, k)}

\* The step is the cluster rewrite of the element at the cursor.
ClusterRewrite ==
    /\ Written = {argv_index}
    /\ At(argv', argv_index) = <<"-">> \o From(At(argv, argv_index), 2)
    /\ argv_index' = argv_index

\* C18: throughout a parse the cursor starts at 1 and never decreases; the
\* session's argument sequence keeps its length and is written only by the
\* cluster rewrite, at the position of the cursor; and no position below
\* the cursor is read or written again.
C18_CursorForward ==
    /\ [][pc = "idle" => argv_index' = 1 /\ argv' = input]_vars
    /\ [][pc = "parsing" =>
            /\ argv_index' >= argv_index
            /\ Len(argv') = Len(argv) /\ argc' = argc
            /\ Written = {} \/ ClusterRewrite
            /\ \A k \in NewReads \cup Written : k >= argv_index]_vars

\* A parse that has rewritten the cluster at position 1 and has since read
\* positions 1 again, 2 as the argument of -f, and 3 as an operand:
\* p -vf x x.
C18_Witness ==
    /\ pc = "parsing"
    /\ input = << <<"p">>, <<"-", "v", "f">>, <<"x">>, <<"x">> >>
    /\ argv = << <<"p">>, <<"-", "f">>, <<"x">>, <<"x">> >>
    /\ reads = <<1, 1, 2, 3>>
    /\ argv_index = 4

----------------------------------------------------------------------------
(* C19 *)

\* The k-th element read is a rewritten cluster, read again at the position
\* of the element read before it.
Rescanned(k) == k > 1 /\ scan[k].pos = scan[k - 1].pos

\* The call of _parse that read the k-th element has ended.
Handled(k) == k < Len(scan) \/ pc = "done"

\* C19: every character of a short-option cluster is resolved by short-name
\* lookup: the first character after the "-" of a rewritten token that is
\* read again at the same position is looked up as a short option name
\* whatever it is, so the token is never handled as a long option or as the
\* end-of-options marker; -x- and -x-name fail with the unknown-option
\* message for "-" when no option has the short name "-".
C19_ClusterCharactersAreShortNames ==
    \A k \in 1..Len(scan) :
      (Rescanned(k) /\ Handled(k) /\ FindShort(<<scan[k].arg[2]>>) = 0) =>
         FailedAt(k, Msg("Unknown option: -", <<scan[k].arg[2]>>, ""))

----------------------------------------------------------------------------
(* C20 *)

\* What a call of parse on the list l leaves, as far as it does not depend
\* on the settings the handlers keep.
LeftBy(l) ==
    [operands |-> ParseOf(l).operands,
     argv_index |-> ParseOf(l).argv_index,
     result |-> ParseOf(l).result]

\* C20: parse never modifies the list its caller passes: at every step of
\* a parse, and so when it returns or fails, the caller's list has the
\* elements it had, in the same order, also when clusters were rewritten;
\* and a later call of parse on the same Command starts from empty operands
\* and the cursor at 1, and leaves what a first call on its list leaves.
C20_CallerListUntouched ==
    /\ [][pc = "parsing" => input' = input]_vars
    /\ [][pc # "parsing" /\ pc' = "parsing" =>
            operands' = <<>> /\ argv_index' = 1 /\ argv' = input' /\ argc' = Len(input')]_vars
    /\ [](pc = "done" =>
            [operands |-> operands, argv_index |-> argv_index, result |-> result]
              = LeftBy(input))

\* The second call on the list p -vvf x x has returned, after the first
\* call and this one have each rewritten the session's copy twice.
C20_Witness ==
    /\ pc = "done"
    /\ parses = 2
    /\ input = << <<"p">>, <<"-", "v", "v", "f">>, <<"x">>, <<"x">> >>
    /\ argv = << <<"p">>, <<"-", "f">>, <<"x">>, <<"x">> >>
    /\ operands = << <<"x">> >>
    /\ result = FALSE
    /\ Len(calls) = 3

====
